---- MODULE Spec2Model ----
(***************************************************************************)
(* Model of BuildCommand (packages/@angular/cli/commands/build.ts):        *)
(* validate() followed by the async run(), whose awaited calls to the      *)
(* build task and the render-universal task are the suspension points.     *)
(***************************************************************************)
EXTENDS Integers, Sequences, FiniteSets, TLC

\* ---------------------------------------------------------------- bounds
MaxUrlLen == 2      \* longest deploy URL (in characters) the caller passes
MaxRuns == 2        \* how many times the caller runs the command on one record
MaxVal == 1         \* task results are drawn from 0..MaxVal

\* ---------------------------------------------------------------- values
Chars == {"a", "/"}
Strs == UNION {[1..n -> Chars] : n \in 0..MaxUrlLen}

\* an optional string option: undefined, or a string of characters
UndefinedStr == [defined |-> FALSE, str |-> <<>>]
DefinedStr(s) == [defined |-> TRUE, str |-> s]
DeployUrls == {UndefinedStr} \cup {DefinedStr(s) : s \in Strs}

Targets == {"production", "development"}
Tristate == {"undefined", "true", "false"}
AppNames == {"app", "ssr"}
Selectors == AppNames \cup {"undefined", "nope"}
OutputPaths == {"undefined", "out"}
Platforms == {"browser", "server"}
Routes == {"/", "/shell"}
ProjectRoot == "root"

BuildTaskOptions ==
    [target : Targets, aot : Tristate, skipAppShell : Tristate,
     deployUrl : DeployUrls, app : Selectors, outputPath : OutputPaths]

\* ---------------------------------------------------------------- project configuration (apps of .angular-cli.json)
NoShell == [defined |-> FALSE, app |-> "undefined", route |-> "undefined"]
Shell(ref, route) == [defined |-> TRUE, app |-> ref, route |-> route]
ShellChoices ==
    {NoShell} \cup {Shell(ref, r) : ref \in AppNames \cup {"nope"}, r \in Routes}

AppDescriptor(name, platform, outDir, index, shell) ==
    [name |-> name, platform |-> platform, outDir |-> outDir,
     index |-> index, appShell |-> shell]

NullApp == AppDescriptor("null", "undefined", "undefined", "undefined", NoShell)

MkConfig(shell, platform) ==
    [n \in AppNames |->
        IF n = "app"
        THEN AppDescriptor("app", "browser", "dist", "index.html", shell)
        ELSE AppDescriptor("ssr", platform, "dist-server", "server.html", NoShell)]

Configs == {MkConfig(s, p) : s \in ShellChoices, p \in Platforms}

VARIABLES
    config,       \* the project's apps, by name
    options,      \* the caller's options record (run() mutates it in place)
    pc,           \* position of the command
    clientApp,    \* run(): const clientApp
    doAppShell,   \* run(): const doAppShell
    serverApp,    \* run(): let serverApp
    calls,        \* the task invocations of this run, in call order
    resolved,     \* selectors handed to getAppFromConfig in this run, in order
    checks,       \* version assertions executed in this run, in order
    returned,     \* the value the run's promise resolved with (at most one)
    thrown,       \* the error the command failed with (at most one)
    orig,         \* the options record as it was when this run started
    first,        \* the options record as the caller first passed it
    runs          \* number of the current run on this options record

vars == <<config, options, pc, clientApp, doAppShell, serverApp, calls,
          resolved, checks, returned, thrown, orig, first, runs>>

\* ---------------------------------------------------------------- pure helpers
\* JavaScript truthiness of an optional string: undefined and '' are falsy
Truthy(d) == d.defined /\ Len(d.str) > 0

\* JavaScript truthiness of an optional boolean flag
TruthyFlag(f) == f = "true"

\* s.substr(-1): the last character, '' for the empty string
SubstrLast(s) == IF Len(s) = 0 THEN <<>> ELSE <<s[Len(s)]>>

\* alternative: appends the separator whenever the option is present
NormalizeDeployUrl_NoLastCheck(d) ==
    IF Truthy(d) THEN DefinedStr(Append(d.str, "/")) ELSE d

\* alternative: the comparison of the last character is inverted
NormalizeDeployUrl_Inverted(d) ==
    IF Truthy(d) /\ SubstrLast(d.str) = <<"/">>
    THEN DefinedStr(Append(d.str, "/"))
    ELSE d

\* lines 242-244
NormalizeDeployUrl(d) ==
    IF Truthy(d) /\ SubstrLast(d.str) # <<"/">>
    THEN DefinedStr(Append(d.str, "/"))
    ELSE d

\* alternative: an unset AOT flag counts as disabled
DoAppShell_AotMustBeTrue(o) ==
    /\ o.target = "production"
    /\ o.aot = "true"
    /\ ~TruthyFlag(o.skipAppShell)

\* lines 255-257
DoAppShell(o) ==
    /\ o.target = "production"
    /\ (o.aot = "undefined" \/ o.aot = "true")
    /\ ~TruthyFlag(o.skipAppShell)

\* getAppFromConfig(nameOrIndex): the set holding the descriptor found, or {}
\* when the lookup throws; an absent selector selects the default (first) app
getAppFromConfig(sel) ==
    IF sel = "undefined" THEN {config["app"]}
    ELSE IF sel \in DOMAIN config THEN {config[sel]}
    ELSE {}

\* path.join of plain segments: the segments with a separator between them
RECURSIVE Join(_)
Join(segments) ==
    IF Len(segments) <= 1 THEN segments
    ELSE <<Head(segments), "/">> \o Join(Tail(segments))

Err(name, call) == [name |-> name, call |-> call]
Token(call, val) == [call |-> call, val |-> val]

BuildCall(o) == [kind |-> "build", arg |-> o, status |-> "inflight", out |-> {}]
RenderCall(o) == [kind |-> "render", arg |-> o, status |-> "inflight", out |-> {}]
Settle(c, status, out) == [c EXCEPT !.status = status, !.out = {out}]

\* ---------------------------------------------------------------- initial state
Init ==
    /\ config \in Configs
    /\ options \in BuildTaskOptions
    /\ pc = "Validating"
    /\ clientApp = NullApp
    /\ doAppShell = FALSE
    /\ serverApp = NullApp
    /\ calls = <<>>
    /\ resolved = <<>>
    /\ checks = <<>>
    /\ returned = {}
    /\ thrown = {}
    /\ orig = options
    /\ first = options
    /\ runs = 1

\* ---------------------------------------------------------------- validate()
\* where the command goes once validate() has ended: run() is invoked only
\* when validate() returned, a throw ends the command
AfterValidate(returnedTrue) == IF returnedTrue THEN "Ready" ELSE "Done"

\* alternative: the TypeScript assertion of line 236 is missing
Validate_OnlyAngular ==
    /\ pc = "Validating"
    /\ \E angularOk \in BOOLEAN :
        IF ~angularOk
        THEN /\ checks' = <<"angular">>
             /\ thrown' = {Err("AngularVersionTooLow", 0)}
             /\ pc' = AfterValidate(FALSE)
        ELSE /\ checks' = <<"angular">>
             /\ thrown' = thrown
             /\ pc' = AfterValidate(TRUE)
    /\ UNCHANGED <<config, options, clientApp, doAppShell, serverApp, calls,
                   resolved, returned, orig, first, runs>>

\* lines 234-238: two version assertions, each passing or throwing
Validate ==
    /\ pc = "Validating"
    /\ \E angularOk \in BOOLEAN, typescriptOk \in BOOLEAN :
        IF ~angularOk
        THEN \* line 235 throws
             /\ checks' = <<"angular">>
             /\ thrown' = {Err("AngularVersionTooLow", 0)}
             /\ pc' = AfterValidate(FALSE)
        ELSE IF ~typescriptOk
        THEN \* line 236 throws
             /\ checks' = <<"angular", "typescript">>
             /\ thrown' = {Err("TypescriptVersionTooLow", 0)}
             /\ pc' = AfterValidate(FALSE)
        ELSE \* line 237
             /\ checks' = <<"angular", "typescript">>
             /\ thrown' = thrown
             /\ pc' = AfterValidate(TRUE)
    /\ UNCHANGED <<config, options, clientApp, doAppShell, serverApp, calls,
                   resolved, returned, orig, first, runs>>

\* ---------------------------------------------------------------- run(), up to its first await
\* the options record after lines 242-244
Normalized(o) == [o EXCEPT !.deployUrl = NormalizeDeployUrl(@)]

\* alternative: the guard is entered whenever the client declares a shell
GuardApplies_ShellOnly(app, das) == app.appShell.defined

\* alternative: the shell's server app is not looked up before the client build
GuardApplies_Never(app, das) == FALSE

\* alternative: the guard is entered whenever the pipeline is eligible
GuardApplies_EligibleOnly(app, das) == das

\* line 260
GuardApplies(app, das) == app.appShell.defined /\ das

\* alternative: the platform guard passes every descriptor
PlatformOk_Always(app) == TRUE

\* line 262
PlatformOk(app) == app.platform = "server"

\* lines 241-267 with o the options record after line 244 and arg the record
\* handed to buildTask.run: resolve the client app, decide doAppShell, run the
\* platform guard, call the build task
RunStartWith(o, arg) ==
    /\ pc = "Ready"
    /\ LET found == getAppFromConfig(o.app)
       IN  /\ options' = o
           /\ IF found = {}
              THEN \* line 253 throws
                   /\ resolved' = <<o.app>>
                   /\ thrown' = {Err("SelectorNotFound", 0)}
                   /\ pc' = "Done"
                   /\ UNCHANGED <<clientApp, doAppShell, serverApp, calls>>
              ELSE LET app == CHOOSE a \in found : TRUE
                       das == DoAppShell(o)
                       ref == app.appShell.app
                       sfound == getAppFromConfig(ref)
                   IN  /\ clientApp' = app
                       /\ doAppShell' = das
                       /\ IF ~GuardApplies(app, das)
                          THEN \* line 267, serverApp still null
                               /\ resolved' = <<o.app>>
                               /\ calls' = <<BuildCall(arg)>>
                               /\ pc' = "BuildingClient"
                               /\ UNCHANGED <<serverApp, thrown>>
                          ELSE IF sfound = {}
                          THEN \* line 261 throws
                               /\ resolved' = <<o.app, ref>>
                               /\ thrown' = {Err("SelectorNotFound", 0)}
                               /\ pc' = "Done"
                               /\ UNCHANGED <<serverApp, calls>>
                          ELSE LET sapp == CHOOSE a \in sfound : TRUE
                               IN  /\ resolved' = <<o.app, ref>>
                                   /\ serverApp' = sapp
                                   /\ IF ~PlatformOk(sapp)
                                      THEN \* line 263
                                           /\ thrown' = {Err("PlatformMismatch", 0)}
                                           /\ pc' = "Done"
                                           /\ UNCHANGED calls
                                      ELSE \* line 267
                                           /\ calls' = <<BuildCall(arg)>>
                                           /\ pc' = "BuildingClient"
                                           /\ UNCHANGED thrown
    /\ UNCHANGED <<config, checks, returned, orig, first, runs>>

\* alternative: the build task is handed the options as they were on entry
RunStart_StaleOptions == RunStartWith(Normalized(options), options)

\* lines 241-267
RunStart == RunStartWith(Normalized(options), Normalized(options))

\* ---------------------------------------------------------------- run(), after the client build
Vals == 0..MaxVal

\* alternative: only the eligibility decision is tested
ReturnsClientResult_NoShellTest(app, das) == ~das

\* alternative: only the presence of the shell descriptor is tested
ReturnsClientResult_NoEligibilityTest(app, das) == ~app.appShell.defined

\* line 268
ReturnsClientResult(app, das) == ~app.appShell.defined \/ ~das

\* alternative: the copy is taken from the record as the caller passed it
ServerOptions_FromOriginal(o, app) == [orig EXCEPT !.app = app.appShell.app]

\* lines 272-275
ServerOptions(o, app) == [o EXCEPT !.app = app.appShell.app]

\* alternative: the rendered page is written into the server's output directory
RenderUniversalOptions_OutputInServerDir(client, server) ==
    [inputIndexPath |-> Join(<<ProjectRoot, client.outDir, client.index>>),
     route |-> client.appShell.route,
     serverOutDir |-> Join(<<ProjectRoot, server.outDir>>),
     outputIndexPath |-> Join(<<ProjectRoot, server.outDir, client.index>>)]

\* alternative: the server bundle is looked for in the client's output directory
RenderUniversalOptions_ClientOutDir(client, server) ==
    [inputIndexPath |-> Join(<<ProjectRoot, client.outDir, client.index>>),
     route |-> client.appShell.route,
     serverOutDir |-> Join(<<ProjectRoot, client.outDir>>),
     outputIndexPath |-> Join(<<ProjectRoot, client.outDir, client.index>>)]

\* lines 284-289
RenderUniversalOptions(client, server) ==
    [inputIndexPath |-> Join(<<ProjectRoot, client.outDir, client.index>>),
     route |-> client.appShell.route,
     serverOutDir |-> Join(<<ProjectRoot, server.outDir>>),
     outputIndexPath |-> Join(<<ProjectRoot, client.outDir, client.index>>)]

\* the settled outcome of the call in flight: the task's promise resolves with
\* a value of its own or rejects with an error of its own
Outcomes(n) ==
    {[status |-> "resolved", out |-> Token(n, v)] : v \in Vals}
        \cup {[status |-> "rejected", out |-> Err("TaskFailed", n)]}

\* alternative: the server build is not awaited, the render task starts at once
ClientBuildDone_ServerNotAwaited ==
    /\ pc = "BuildingClient"
    /\ \E r \in Outcomes(1) :
        LET settled == <<Settle(calls[1], r.status, r.out)>>
        IN  IF r.status = "rejected"
            THEN /\ calls' = settled
                 /\ thrown' = {r.out}
                 /\ pc' = "Done"
                 /\ UNCHANGED returned
            ELSE IF ReturnsClientResult(clientApp, doAppShell)
            THEN /\ calls' = settled
                 /\ returned' = {r.out}
                 /\ pc' = "Done"
                 /\ UNCHANGED thrown
            ELSE /\ calls' = settled \o
                        <<BuildCall(ServerOptions(options, clientApp)),
                          RenderCall(RenderUniversalOptions(clientApp, serverApp))>>
                 /\ pc' = "Rendering"
                 /\ UNCHANGED <<returned, thrown>>
    /\ UNCHANGED <<config, options, clientApp, doAppShell, serverApp,
                   resolved, checks, orig, first, runs>>

\* alternative: a rejected client build is swallowed and the run goes on
ClientBuildDone_IgnoresFailure ==
    /\ pc = "BuildingClient"
    /\ \E r \in Outcomes(1) :
        LET settled == <<Settle(calls[1], r.status, r.out)>>
        IN  IF ReturnsClientResult(clientApp, doAppShell)
            THEN /\ calls' = settled
                 /\ (IF r.status = "rejected"
                     THEN thrown' = {r.out} /\ UNCHANGED returned
                     ELSE returned' = {r.out} /\ UNCHANGED thrown)
                 /\ pc' = "Done"
            ELSE /\ calls' = Append(settled,
                                    BuildCall(ServerOptions(options, clientApp)))
                 /\ pc' = "BuildingServer"
                 /\ UNCHANGED <<returned, thrown>>
    /\ UNCHANGED <<config, options, clientApp, doAppShell, serverApp,
                   resolved, checks, orig, first, runs>>

\* alternative: the server's selector is assigned into the caller's record
ClientBuildDone_AssignsApp ==
    /\ pc = "BuildingClient"
    /\ \E r \in Outcomes(1) :
        LET settled == <<Settle(calls[1], r.status, r.out)>>
        IN  IF r.status = "rejected"
            THEN /\ calls' = settled
                 /\ thrown' = {r.out}
                 /\ pc' = "Done"
                 /\ UNCHANGED <<returned, options>>
            ELSE IF ReturnsClientResult(clientApp, doAppShell)
            THEN /\ calls' = settled
                 /\ returned' = {r.out}
                 /\ pc' = "Done"
                 /\ UNCHANGED <<thrown, options>>
            ELSE /\ options' = ServerOptions(options, clientApp)
                 /\ calls' = Append(settled, BuildCall(options'))
                 /\ pc' = "BuildingServer"
                 /\ UNCHANGED <<returned, thrown>>
    /\ UNCHANGED <<config, clientApp, doAppShell, serverApp,
                   resolved, checks, orig, first, runs>>

\* lines 267-276: the awaited client build settles; a rejection propagates,
\* otherwise the run returns its result or calls the build task for the server
ClientBuildDone ==
    /\ pc = "BuildingClient"
    /\ \E r \in Outcomes(1) :
        LET settled == <<Settle(calls[1], r.status, r.out)>>
        IN  IF r.status = "rejected"
            THEN /\ calls' = settled
                 /\ thrown' = {r.out}
                 /\ pc' = "Done"
                 /\ UNCHANGED returned
            ELSE IF ReturnsClientResult(clientApp, doAppShell)
            THEN \* line 269
                 /\ calls' = settled
                 /\ returned' = {r.out}
                 /\ pc' = "Done"
                 /\ UNCHANGED thrown
            ELSE \* lines 272-276
                 /\ calls' = Append(settled,
                                    BuildCall(ServerOptions(options, clientApp)))
                 /\ pc' = "BuildingServer"
                 /\ UNCHANGED <<returned, thrown>>
    /\ UNCHANGED <<config, options, clientApp, doAppShell, serverApp,
                   resolved, checks, orig, first, runs>>

\* ---------------------------------------------------------------- run(), after the server build
\* lines 276-291: the awaited server build settles; a rejection propagates,
\* otherwise the render task is called
ServerBuildDone ==
    /\ pc = "BuildingServer"
    /\ \E r \in Outcomes(2) :
        LET settled == [calls EXCEPT ![2] = Settle(@, r.status, r.out)]
        IN  IF r.status = "rejected"
            THEN /\ calls' = settled
                 /\ thrown' = {r.out}
                 /\ pc' = "Done"
            ELSE /\ calls' = Append(settled,
                        RenderCall(RenderUniversalOptions(clientApp, serverApp)))
                 /\ pc' = "Rendering"
                 /\ UNCHANGED thrown
    /\ UNCHANGED <<config, options, clientApp, doAppShell, serverApp,
                   resolved, checks, returned, orig, first, runs>>

\* alternative: the run returns the server build's result kept from line 276
RenderResult_ServerBuild(cs, r) == cs[2].out

\* line 291: the value run() returns once the render task has resolved with r
RenderResult(cs, r) == {r.out}

\* alternative: a rejected render is tried once more
RenderDone_RetriesOnce ==
    /\ pc = "Rendering"
    /\ \E r \in Outcomes(Len(calls)) :
        LET settled == [calls EXCEPT ![Len(calls)] = Settle(@, r.status, r.out)]
        IN  IF r.status = "rejected" /\ Len(calls) = 3
            THEN /\ calls' = Append(settled,
                        RenderCall(RenderUniversalOptions(clientApp, serverApp)))
                 /\ pc' = "Rendering"
                 /\ UNCHANGED <<returned, thrown>>
            ELSE /\ calls' = settled
                 /\ IF r.status = "rejected"
                    THEN thrown' = {r.out} /\ UNCHANGED returned
                    ELSE returned' = {r.out} /\ UNCHANGED thrown
                 /\ pc' = "Done"
    /\ UNCHANGED <<config, options, clientApp, doAppShell, serverApp,
                   resolved, checks, orig, first, runs>>

\* line 291: the awaited render task settles and run() returns its result
RenderDone ==
    /\ pc = "Rendering"
    /\ \E r \in Outcomes(Len(calls)) :
        /\ calls' = [calls EXCEPT ![Len(calls)] = Settle(@, r.status, r.out)]
        /\ IF r.status = "rejected"
           THEN thrown' = {r.out} /\ UNCHANGED returned
           ELSE returned' = RenderResult(calls, r) /\ UNCHANGED thrown
        /\ pc' = "Done"
    /\ UNCHANGED <<config, options, clientApp, doAppShell, serverApp,
                   resolved, checks, orig, first, runs>>

\* ---------------------------------------------------------------- the caller
\* the caller runs the command again on the same options record
RunAgain ==
    /\ pc = "Done"
    /\ runs < MaxRuns
    /\ runs' = runs + 1
    /\ orig' = options
    /\ pc' = "Validating"
    /\ clientApp' = NullApp
    /\ doAppShell' = FALSE
    /\ serverApp' = NullApp
    /\ calls' = <<>>
    /\ resolved' = <<>>
    /\ checks' = <<>>
    /\ returned' = {}
    /\ thrown' = {}
    /\ UNCHANGED <<config, options, first>>

Next ==
    \/ Validate
    \/ RunStart
    \/ ClientBuildDone
    \/ ServerBuildDone
    \/ RenderDone
    \/ RunAgain

Spec == Init /\ [][Next]_vars

\* the synchronous code of validate() and run() runs to its next await, and
\* every task call that was started settles; whether the caller runs the
\* command again is left open
Fairness ==
    /\ WF_vars(Validate)
    /\ WF_vars(RunStart)
    /\ WF_vars(ClientBuildDone)
    /\ WF_vars(ServerBuildDone)
    /\ WF_vars(RenderDone)

FairSpec == Spec /\ Fairness

\* ---------------------------------------------------------------- typing
TypeOK ==
    /\ config \in Configs
    /\ options.target \in Targets
    /\ options.aot \in Tristate
    /\ options.skipAppShell \in Tristate
    /\ options.app \in Selectors
    /\ options.deployUrl.defined \in BOOLEAN
    /\ Len(options.deployUrl.str) <= MaxUrlLen + 1
    /\ pc \in {"Validating", "Ready", "BuildingClient", "BuildingServer",
               "Rendering", "Done"}
    /\ doAppShell \in BOOLEAN
    /\ Len(calls) <= 3
    /\ Len(resolved) <= 2
    /\ Len(checks) <= 2
    /\ runs \in 1..MaxRuns

\* ---------------------------------------------------------------- vocabulary of the properties
\* run() has been entered in this run (line 253 has executed)
RunEntered == resolved # <<>>

\* the inputs of the run, read off the options record and the configuration
ClientFound == getAppFromConfig(options.app) # {}
TheClient == CHOOSE a \in getAppFromConfig(options.app) : TRUE
ShellDeclared == ClientFound /\ TheClient.appShell.defined
ServerFound == ShellDeclared /\ getAppFromConfig(TheClient.appShell.app) # {}
TheServer == CHOOSE a \in getAppFromConfig(TheClient.appShell.app) : TRUE
Eligible ==
    /\ options.target = "production"
    /\ options.aot # "false"
    /\ options.skipAppShell # "true"

InFlight == {i \in 1..Len(calls) : calls[i].status = "inflight"}
Kinds == [i \in 1..Len(calls) |-> calls[i].kind]
IsPrefix(s, t) == Len(s) <= Len(t) /\ \A i \in 1..Len(s) : s[i] = t[i]
AllResolved == \A i \in 1..Len(calls) : calls[i].status = "resolved"
RenderCalls == {i \in 1..Len(calls) : calls[i].kind = "render"}
BuildCalls == {i \in 1..Len(calls) : calls[i].kind = "build"}

\* ---------------------------------------------------------------- C1
\* C1: when the client declares a shell, the pipeline is eligible and the
\* shell's server app has platform 'server', the task calls of a run are, in
\* order, the client build, the server build and the render; a call is made
\* only once every earlier call has resolved, so at most one is in flight; and
\* a run in which every call resolved made exactly these three calls.
C1_ShellPipelineOrder ==
    (RunEntered /\ ShellDeclared /\ Eligible /\ ServerFound
        /\ TheServer.platform = "server")
    => /\ Cardinality(InFlight) <= 1
       /\ \A i \in 1..(Len(calls) - 1) : calls[i].status = "resolved"
       /\ Len(calls) >= 1
       /\ IsPrefix(Kinds, <<"build", "build", "render">>)
       /\ calls[1].arg.app = options.app
       /\ Len(calls) >= 2 => calls[2].arg.app = TheClient.appShell.app
       /\ (pc = "Done" /\ AllResolved) => Len(calls) = 3

C1_Witness ==
    /\ ShellDeclared /\ Eligible /\ ServerFound /\ TheServer.platform = "server"
    /\ pc = "Done"
    /\ Len(calls) = 3
    /\ AllResolved
    /\ returned # {}

\* ---------------------------------------------------------------- C2
\* C2: when the client declares a shell, the pipeline is eligible and the
\* shell's server app has a platform other than 'server', the run ends with the
\* PlatformMismatch error and no build or render call is made in it.
C2_PlatformMismatchBeforeBuild ==
    (ShellDeclared /\ Eligible /\ ServerFound /\ TheServer.platform # "server")
    => /\ calls = <<>>
       /\ RunEntered => /\ pc = "Done"
                        /\ thrown = {Err("PlatformMismatch", 0)}
                        /\ returned = {}

C2_Witness ==
    /\ ShellDeclared /\ Eligible /\ ServerFound /\ TheServer.platform # "server"
    /\ RunEntered
    /\ thrown = {Err("PlatformMismatch", 0)}
    /\ calls = <<>>

\* ---------------------------------------------------------------- C3
\* C3: when the resolved client app declares no shell, whatever the target,
\* AOT and skip-shell options are, the run makes exactly one build call (for
\* the client), resolves no server app, never calls render, and on success
\* returns that build call's result.
C3_NoShellSingleBuild ==
    (RunEntered /\ ClientFound /\ ~TheClient.appShell.defined)
    => /\ resolved = <<options.app>>
       /\ Len(calls) = 1
       /\ calls[1].kind = "build"
       /\ calls[1].arg.app = options.app
       /\ serverApp = NullApp
       /\ (pc = "Done" /\ calls[1].status = "resolved") => returned = calls[1].out
       /\ (pc = "Done") = (calls[1].status # "inflight")

C3_Witness ==
    /\ RunEntered /\ ClientFound /\ ~TheClient.appShell.defined
    /\ Eligible
    /\ pc = "Done"
    /\ returned # {}
    /\ returned = calls[1].out

\* ---------------------------------------------------------------- C4
\* C4: when the target is not 'production', or AOT is explicitly false, or
\* skip-shell is true, a run whose client declares a shell makes exactly one
\* build call and no render call, resolves no server app and so never checks a
\* platform: a server app of another platform does not make the run fail.
C4_IneligibleSkipsShell ==
    (RunEntered /\ ShellDeclared /\ ~Eligible)
    => /\ resolved = <<options.app>>
       /\ serverApp = NullApp
       /\ Len(calls) = 1
       /\ calls[1].kind = "build"
       /\ calls[1].arg.app = options.app
       /\ Err("PlatformMismatch", 0) \notin thrown
       /\ Err("SelectorNotFound", 0) \notin thrown
       /\ (pc = "Done" /\ calls[1].status = "resolved") => returned = calls[1].out

C4_Witness ==
    /\ RunEntered /\ ShellDeclared /\ ~Eligible
    /\ ServerFound /\ TheServer.platform # "server"
    /\ pc = "Done"
    /\ returned # {}
    /\ Len(calls) = 1

\* ---------------------------------------------------------------- C5
\* C5: the decision run() takes equals target = 'production' and AOT unset or
\* true and skip-shell not true; with target production, AOT unset, skip-shell
\* false and a declared shell whose server app is a 'server' platform, a run
\* whose calls all resolved has made the server build and the render call.
C5_EligibilityDecision ==
    /\ clientApp # NullApp
       => doAppShell = (/\ options.target = "production"
                        /\ options.aot \in {"undefined", "true"}
                        /\ options.skipAppShell # "true")
    /\ (/\ options.target = "production"
        /\ options.aot = "undefined"
        /\ options.skipAppShell = "false"
        /\ ShellDeclared /\ ServerFound /\ TheServer.platform = "server"
        /\ pc = "Done" /\ RunEntered /\ AllResolved)
       => /\ Len(calls) = 3
          /\ Kinds = <<"build", "build", "render">>

C5_Witness ==
    /\ options.target = "production"
    /\ options.aot = "undefined"
    /\ options.skipAppShell = "false"
    /\ ShellDeclared /\ ServerFound /\ TheServer.platform = "server"
    /\ doAppShell
    /\ pc = "Done"
    /\ Kinds = <<"build", "build", "render">>
    /\ AllResolved

\* ---------------------------------------------------------------- C6
EndsWithSlash(d) == d.defined /\ Len(d.str) > 0 /\ d.str[Len(d.str)] = "/"
WithSlash(d) == DefinedStr(Append(d.str, "/"))

\* C6 as stated: once run() has normalized the record, every deploy URL that
\* was present and did not end with '/', the empty string included, has become
\* the input with one '/' appended.
C6_AppendsToEveryPresentUrl ==
    (RunEntered /\ orig.deployUrl.defined /\ ~EndsWithSlash(orig.deployUrl))
    => options.deployUrl = WithSlash(orig.deployUrl)

\* C6 as amended: once run() has normalized the record, every deploy URL that
\* was present, not empty and did not end with '/' has become the input with
\* exactly one '/' appended; the empty string is left as it is.
C6_AppendsToNonEmptyUrl ==
    /\ (RunEntered /\ orig.deployUrl.defined /\ Len(orig.deployUrl.str) > 0
            /\ ~EndsWithSlash(orig.deployUrl))
       => options.deployUrl = WithSlash(orig.deployUrl)
    /\ (RunEntered /\ orig.deployUrl.defined /\ Len(orig.deployUrl.str) = 0)
       => options.deployUrl = orig.deployUrl

C6_Witness ==
    /\ RunEntered
    /\ orig.deployUrl = DefinedStr(<<"/", "a">>)
    /\ options.deployUrl = DefinedStr(<<"/", "a", "/">>)

\* ---------------------------------------------------------------- C7
\* C7: normalization is idempotent: the normalized value is a fixed point of
\* the normalization, a value already ending in '/' is left unchanged, and
\* however often the command runs on the same record, the deploy URL is the
\* caller's first value or that value with a single '/' appended.
C7_NormalizationIdempotent ==
    /\ RunEntered => NormalizeDeployUrl(options.deployUrl) = options.deployUrl
    /\ (RunEntered /\ EndsWithSlash(orig.deployUrl))
       => options.deployUrl = orig.deployUrl
    /\ options.deployUrl \in {first.deployUrl, WithSlash(first.deployUrl)}
    /\ EndsWithSlash(first.deployUrl) => options.deployUrl = first.deployUrl

C7_Witness ==
    /\ runs = 2
    /\ RunEntered
    /\ options.deployUrl = WithSlash(first.deployUrl)
    /\ orig.deployUrl = WithSlash(first.deployUrl)

\* ---------------------------------------------------------------- C8
\* C8: every build call of a run, the client one and the server one, is handed
\* the deploy URL of the normalized record: it ends in '/' whenever the caller
\* supplied a non-empty deploy URL, and it is never an input that lacked the
\* separator.
C8_BuildsSeeNormalizedUrl ==
    \A i \in BuildCalls :
        /\ calls[i].arg.deployUrl = options.deployUrl
        /\ Truthy(orig.deployUrl) => EndsWithSlash(calls[i].arg.deployUrl)
        /\ (Truthy(orig.deployUrl) /\ ~EndsWithSlash(orig.deployUrl))
           => calls[i].arg.deployUrl = WithSlash(orig.deployUrl)

C8_Witness ==
    /\ Truthy(orig.deployUrl) /\ ~EndsWithSlash(orig.deployUrl)
    /\ Cardinality(BuildCalls) = 2
    /\ \A i \in BuildCalls : calls[i].arg.deployUrl = WithSlash(orig.deployUrl)

\* ---------------------------------------------------------------- C9
\* C9: a run that succeeded returns the render call's result exactly when the
\* shell pipeline ran (a shell is declared and the pipeline is eligible), and
\* the client build call's result exactly when it did not; it never returns
\* the server build call's result.
C9_RunResult ==
    (pc = "Done" /\ returned # {})
    => /\ (ShellDeclared /\ Eligible)
          => /\ Len(calls) = 3
             /\ calls[3].kind = "render"
             /\ returned = calls[3].out
             /\ returned # calls[1].out
       /\ ~(ShellDeclared /\ Eligible)
          => /\ Len(calls) = 1
             /\ calls[1].kind = "build"
             /\ returned = calls[1].out
       /\ Len(calls) >= 2 => returned # calls[2].out

C9_Witness ==
    /\ pc = "Done"
    /\ ShellDeclared /\ Eligible
    /\ Len(calls) = 3
    /\ returned = calls[3].out
    /\ returned # {}

\* ---------------------------------------------------------------- C10
\* C10: a rejected client build ends the run with that error and no further
\* call; a rejected server build ends the run with that error and no render
\* call; a finished run has exactly one outcome, a returned value or an error,
\* and an unfinished run has none.
C10_ErrorsAbort ==
    /\ (Len(calls) >= 1 /\ calls[1].status = "rejected")
       => /\ Len(calls) = 1
          /\ pc = "Done"
          /\ thrown = calls[1].out
          /\ returned = {}
    /\ (Len(calls) >= 2 /\ calls[2].status = "rejected")
       => /\ Len(calls) = 2
          /\ pc = "Done"
          /\ thrown = calls[2].out
          /\ returned = {}
    /\ (Len(calls) >= 3 /\ calls[3].status = "rejected")
       => /\ pc = "Done"
          /\ thrown = calls[3].out
          /\ returned = {}
    /\ pc = "Done" => Cardinality(returned) + Cardinality(thrown) = 1
    /\ pc # "Done" => (returned = {} /\ thrown = {})

C10_Witness ==
    /\ pc = "Done"
    /\ Len(calls) = 2
    /\ calls[2].status = "rejected"
    /\ thrown = calls[2].out

\* ---------------------------------------------------------------- C11
\* C11: whenever render is called, its outputIndexPath equals its
\* inputIndexPath, both being project root / client outDir / client index, its
\* route is the client shell's route, and its serverOutDir is project root /
\* server outDir.
C11_RenderArguments ==
    \A i \in RenderCalls :
        /\ calls[i].arg.outputIndexPath = calls[i].arg.inputIndexPath
        /\ calls[i].arg.inputIndexPath =
              <<ProjectRoot, "/", TheClient.outDir, "/", TheClient.index>>
        /\ calls[i].arg.route = TheClient.appShell.route
        /\ calls[i].arg.serverOutDir = <<ProjectRoot, "/", TheServer.outDir>>

C11_Witness ==
    /\ RenderCalls # {}
    /\ \A i \in RenderCalls :
        /\ calls[i].arg.route = "/shell"
        /\ calls[i].arg.outputIndexPath = <<"root", "/", "dist", "/", "index.html">>
        /\ calls[i].arg.serverOutDir = <<"root", "/", "dist-server">>

\* ---------------------------------------------------------------- C12
OtherFields == DOMAIN options \ {"app"}

\* C12: the options of the server build call are the options of the client
\* build call with only the application selector changed, to the shell's
\* server app reference; the selector of the caller's own record stays as the
\* caller set it.
C12_ServerOptionsAreCopy ==
    /\ Len(calls) >= 2
       => /\ calls[2].kind = "build"
          /\ DOMAIN calls[2].arg = DOMAIN calls[1].arg
          /\ \A f \in OtherFields : calls[2].arg[f] = calls[1].arg[f]
          /\ calls[2].arg.app = TheClient.appShell.app
    /\ options.app = first.app

C12_Witness ==
    /\ Len(calls) >= 2
    /\ calls[2].arg.app = "ssr"
    /\ calls[1].arg.app = "undefined"
    /\ options.app = "undefined"
    /\ calls[2].arg.deployUrl # orig.deployUrl
    /\ calls[2].arg.deployUrl = calls[1].arg.deployUrl

\* ---------------------------------------------------------------- C13
BothChecks == <<"angular", "typescript">>
VersionErrors ==
    {Err("AngularVersionTooLow", 0), Err("TypescriptVersionTooLow", 0)}

\* C13: the version checks run in the order framework, compiler; no
\* normalization, resolution, build or render call happens unless both have
\* passed; when one fails the run ends with that check's error and the record,
\* the resolutions and the call log are untouched.
C13_ChecksBeforeWork ==
    /\ IsPrefix(checks, BothChecks)
    /\ (calls # <<>> \/ resolved # <<>> \/ options # orig \/ returned # {})
       => /\ checks = BothChecks
          /\ thrown \cap VersionErrors = {}
    /\ thrown \cap VersionErrors # {}
       => /\ pc = "Done"
          /\ thrown = {IF checks = <<"angular">>
                       THEN Err("AngularVersionTooLow", 0)
                       ELSE Err("TypescriptVersionTooLow", 0)}
          /\ options = orig
          /\ resolved = <<>>
          /\ clientApp = NullApp
          /\ calls = <<>>
          /\ returned = {}

C13_Witness ==
    /\ pc = "Done"
    /\ thrown = {Err("TypescriptVersionTooLow", 0)}
    /\ checks = BothChecks
    /\ Truthy(orig.deployUrl) /\ ~EndsWithSlash(orig.deployUrl)
    /\ options = orig
    /\ calls = <<>>

\* ---------------------------------------------------------------- C14
\* C14: when the client selector does not resolve, the run ends with the
\* resolution error and no build or render call; the same holds when the
\* shell's server app reference does not resolve, which is found out before
\* the client build is called.
C14_ResolutionFailureAborts ==
    /\ (RunEntered /\ ~ClientFound)
       => /\ pc = "Done"
          /\ thrown = {Err("SelectorNotFound", 0)}
          /\ resolved = <<options.app>>
          /\ calls = <<>>
          /\ returned = {}
    /\ (RunEntered /\ ShellDeclared /\ Eligible /\ ~ServerFound)
       => /\ pc = "Done"
          /\ thrown = {Err("SelectorNotFound", 0)}
          /\ resolved = <<options.app, TheClient.appShell.app>>
          /\ calls = <<>>
          /\ returned = {}

C14_Witness ==
    /\ RunEntered /\ ShellDeclared /\ Eligible /\ ~ServerFound
    /\ pc = "Done"
    /\ thrown = {Err("SelectorNotFound", 0)}
    /\ Len(resolved) = 2
    /\ calls = <<>>

\* ---------------------------------------------------------------- C15
\* run() has been invoked in this run and has executed up to a throw or its
\* first await
RunInvoked ==
    /\ pc \notin {"Validating", "Ready"}
    /\ thrown \cap VersionErrors = {}

\* C15: a run resolves the caller's selector exactly once and, after it, the
\* shell's server app reference at most once, which it does if and only if the
\* client declares a shell and the pipeline is eligible; nothing else is
\* resolved.
C15_AtMostTwoResolutions ==
    /\ Len(resolved) <= 2
    /\ ~RunInvoked => resolved = <<>>
    /\ RunInvoked => (Len(resolved) >= 1 /\ resolved[1] = first.app)
    /\ (RunInvoked /\ ~ClientFound) => Len(resolved) = 1
    /\ (RunInvoked /\ ClientFound)
       => ((Len(resolved) = 2) = (ShellDeclared /\ Eligible))
    /\ Len(resolved) = 2 => resolved[2] = TheClient.appShell.app

C15_Witness ==
    /\ RunInvoked
    /\ pc = "Done"
    /\ Len(calls) = 3
    /\ resolved = <<"app", "ssr">>

\* ---------------------------------------------------------------- C16
\* C16: whatever the run did, every field of the caller's record other than
\* the deploy URL has the value it had when the run started.
C16_OnlyDeployUrlChanges ==
    /\ DOMAIN options = DOMAIN orig
    /\ \A f \in DOMAIN orig \ {"deployUrl"} : options[f] = orig[f]

C16_Witness ==
    /\ pc = "Done"
    /\ Len(calls) = 3
    /\ options.deployUrl # orig.deployUrl
    /\ options.app # calls[2].arg.app

\* ---------------------------------------------------------------- C17
\* the platform guard was entered and passed in RunStart
GuardPassed ==
    /\ Len(resolved) = 2
    /\ serverApp # NullApp
    /\ serverApp.platform = "server"

\* C17: the guard is entered and passed before the client build exactly when
\* the client declares a shell and doAppShell holds, and after a client build
\* that resolved the run goes on to the server build exactly when the guard
\* had passed: the second test of the shell descriptor at line 268 takes the
\* same decision.
C17_DecisionTakenOnce ==
    /\ calls # <<>>
       => (GuardPassed = (clientApp.appShell.defined /\ doAppShell))
    /\ (calls # <<>> /\ calls[1].status = "resolved")
       => ((Len(calls) >= 2) = GuardPassed)
    /\ (calls # <<>> /\ calls[1].status = "resolved" /\ ~GuardPassed)
       => (pc = "Done" /\ returned = calls[1].out)

C17_Witness ==
    /\ pc = "BuildingServer"
    /\ GuardPassed
    /\ calls[1].status = "resolved"
    /\ Len(calls) = 2

\* ---------------------------------------------------------------- C18
\* C18: whenever the server build or the render task has been called, a server
\* app was resolved in this run and its platform is 'server'; the reference it
\* was resolved from is the selector handed to the server build, and the
\* serverOutDir handed to render is that descriptor's output directory.
C18_SameServerApp ==
    /\ Len(calls) >= 2
       => /\ GuardPassed
          /\ getAppFromConfig(resolved[2]) = {serverApp}
          /\ calls[2].kind = "build"
          /\ calls[2].arg.app = resolved[2]
    /\ \A i \in RenderCalls :
          /\ i = 3
          /\ calls[i].arg.serverOutDir = <<ProjectRoot, "/", serverApp.outDir>>

C18_Witness ==
    /\ Len(calls) = 3
    /\ serverApp.name = "ssr"
    /\ calls[2].arg.app = "ssr"
    /\ calls[3].arg.serverOutDir = <<"root", "/", "dist-server">>

\* ---------------------------------------------------------------- C19
Rank(p) ==
    CASE p = "Validating" -> 0
      [] p = "Ready" -> 1
      [] p = "BuildingClient" -> 2
      [] p = "BuildingServer" -> 3
      [] p = "Rendering" -> 4
      [] p = "Done" -> 5

\* within a run the command only moves forward, the call log only grows by
\* appending, and a settled call stays as it settled
StepForward ==
    runs' = runs
    => /\ Rank(pc') > Rank(pc)
       /\ Len(calls') >= Len(calls)
       /\ \A i \in 1..Len(calls) :
            /\ calls'[i].kind = calls[i].kind
            /\ calls'[i].arg = calls[i].arg
            /\ calls[i].status # "inflight" => calls'[i] = calls[i]

\* C19: with every started call settling, every run reaches the terminal
\* state; a run makes at most two build calls and at most one render call,
\* and no stage is entered twice.
C19_RunTerminates ==
    /\ [](Cardinality(BuildCalls) <= 2 /\ Cardinality(RenderCalls) <= 1)
    /\ [][StepForward]_vars
    /\ \A r \in 1..MaxRuns : (runs = r) ~> (runs = r /\ pc = "Done")

C19_Witness ==
    /\ runs = MaxRuns
    /\ pc = "Done"
    /\ Cardinality(BuildCalls) = 2
    /\ Cardinality(RenderCalls) = 1
    /\ returned # {}

====
